---- MODULE Spec2Model ----
(***************************************************************************)
(* Model of jac-gpt/server/database.py: the MongoDB session store.         *)
(*                                                                         *)
(* The two collections, the wall clock read by datetime.utcnow(), the      *)
(* module-level singleton and the outcome of the last call are the state.  *)
(* Every call to the pymongo client may fail (raise); the handlers decide  *)
(* what the caller then sees.                                              *)
(***************************************************************************)
EXTENDS Integers, Sequences, FiniteSets, TLC

VARIABLES
    sessions,            \* db.sessions: a set of session documents
    messages,            \* db.messages: message documents in insertion order
    now,                 \* the last instant datetime.utcnow() returned
    _database_instance,  \* the global get_database reads and writes
    _db_instance,        \* the global close_database reads and writes
    clients,             \* self.client of every MongoDB object built: "open" | "closed"
    ret,                 \* the outcome of the last call of the sequential caller
    pc,                  \* concurrent callers: the position of each in its handler
    frame                \* concurrent callers: the locals and the result of each

vars == <<sessions, messages, now, _database_instance, _db_instance, clients, ret, pc, frame>>

-----------------------------------------------------------------------------
(* Bounds of the model *)

\* The clock runs over 0..MaxNow.
MaxNow == 3
\* Clock instants per millisecond (1000 microseconds in the program).
TicksPerMilli == 2
\* Messages stored in the lifecycle specification.
MaxLifecycleMessages == 1
\* Messages stored in the chat specification.
MaxMessages == 3
\* Messages stored in the statistics specification.
MaxStatsMessages == 5
\* Messages stored in the concurrent specification.
MaxConcMessages == 1
\* The limits passed to get_chat_history run over 0..MaxLimit, and the default.
MaxLimit == 2

\* get_chat_history's default limit.
DefaultLimit == 50

\* Python's None as the value of the two module globals (no MongoDB object).
NoInstance == 0

SessionIds == {"s1", "s2"}
Callers == {"c1", "c2"}

\* Python's None as a returned or looked-up document.
None == [none |-> TRUE]
\* Python's {} and [].
EmptyMapping == [k \in {} |-> 0]
EmptyList == <<>>

Min(a, b) == IF a < b THEN a ELSE b
Abs(a) == IF a < 0 THEN 0 - a ELSE a

-----------------------------------------------------------------------------
(* The document store as pymongo presents it *)

\* A datetime comes back from the store with its microseconds cut to the
\* millisecond: BSON dates are whole milliseconds.
BsonDatetime(t) == (t \div TicksPerMilli) * TicksPerMilli

\* sessions.find_one({"_id": session_id}): the document or None.
find_one(coll, session_id) ==
    IF \E d \in coll : d.id = session_id
    THEN CHOOSE d \in coll : d.id = session_id
    ELSE None

\* sessions.insert_one raises DuplicateKeyError on an _id already stored.
DuplicateKey(coll, doc) == \E d \in coll : d.id = doc.id

\* sessions.insert_one(session_data), when it does not raise.
insert_one(coll, doc) ==
    coll \cup {[doc EXCEPT !.created_at = BsonDatetime(doc.created_at),
                           !.updated_at = BsonDatetime(doc.updated_at)]}

\* messages.insert_one(message_data), when it does not raise.
insert_message(msgs, doc) ==
    Append(msgs, [doc EXCEPT !.timestamp = BsonDatetime(doc.timestamp)])

\* sessions.update_one({"_id": id}, {"$set": {"updated_at": t}}).
set_updated_at(coll, session_id, t) ==
    {IF d.id = session_id THEN [d EXCEPT !.updated_at = BsonDatetime(t)] ELSE d : d \in coll}

\* Mutant of set_closed: the update is an upsert, so closing an unknown id
\* stores a record for it.
set_closed_upsert(coll, session_id, t) ==
    IF \E d \in coll : d.id = session_id
    THEN {IF d.id = session_id
          THEN [d EXCEPT !.status = "closed", !.updated_at = BsonDatetime(t)]
          ELSE d : d \in coll}
    ELSE coll \cup {[id |-> session_id, created_at |-> BsonDatetime(t),
                     updated_at |-> BsonDatetime(t), status |-> "closed"]}

\* sessions.update_one({"_id": id}, {"$set": {"status": "closed", "updated_at": t}}).
set_closed(coll, session_id, t) ==
    {IF d.id = session_id
     THEN [d EXCEPT !.status = "closed", !.updated_at = BsonDatetime(t)]
     ELSE d : d \in coll}

\* messages.find({"session_id": session_id}): the matching documents.
find(msgs, session_id) == SelectSeq(msgs, LAMBDA m : m.session_id = session_id)

\* cursor.sort("timestamp", 1): every order of the documents found with
\* non-decreasing timestamps; the store fixes no order among equal keys.
cursor_sort(found) ==
    LET n == Len(found)
        perms == {p \in [1..n -> 1..n] : \A i, j \in 1..n : i # j => p[i] # p[j]}
    IN {[i \in 1..n |-> found[p[i]]] : p \in
          {q \in perms : \A i, j \in 1..n :
              i < j => found[q[i]].timestamp <= found[q[j]].timestamp}}

\* Mutant of cursor_limit: one document too many.
cursor_limit_plus_one(sorted, limit) ==
    IF limit = 0 THEN sorted ELSE SubSeq(sorted, 1, Min(Abs(limit) + 1, Len(sorted)))

\* cursor.limit(limit): 0 is no limit, a negative limit counts as its
\* absolute value.
cursor_limit(sorted, limit) ==
    IF limit = 0 THEN sorted ELSE SubSeq(sorted, 1, Min(Abs(limit), Len(sorted)))

\* Mutant of count_documents: the session filter is left out.
count_documents_all(msgs, session_id) == Len(msgs)

\* messages.count_documents(filter).
count_documents(msgs, session_id) == Len(find(msgs, session_id))

count_role(msgs, session_id, role) ==
    Len(SelectSeq(msgs, LAMBDA m : m.session_id = session_id /\ m.role = role))

-----------------------------------------------------------------------------
(* The sequential caller: one call at a time, each handler run to its end *)

\* The outcome of a call: what was called, with what, the value returned,
\* whether the handler's except branch ran (logger.error) and whether the
\* exception left the call.
Return(op, session_id, limit, value) ==
    [op |-> op, session_id |-> session_id, limit |-> limit, value |-> value,
     logged_error |-> FALSE, raised |-> FALSE]

\* The except branch of a handler: the error is logged, the sentinel returned.
Except(op, session_id, limit, sentinel) ==
    [op |-> op, session_id |-> session_id, limit |-> limit, value |-> sentinel,
     logged_error |-> TRUE, raised |-> FALSE]

\* No handler, or the handler raises again.
Raise(op) ==
    [op |-> op, session_id |-> "", limit |-> 0, value |-> None,
     logged_error |-> FALSE, raised |-> TRUE]

\* The methods are called on the object get_database returned.
HasInstance == _database_instance # NoInstance

idle == [c \in Callers |-> "idle"]

\* A caller's locals: the call it is in or has finished, the record built
\* for it, the value returned and the exception its handler caught.
Frame(op, session_id, data, value, error) ==
    [op |-> op, session_id |-> session_id, data |-> data, value |-> value, error |-> error]

noFrame == [c \in Callers |-> Frame("", "", None, None, "")]

Init ==
    /\ sessions = {}
    /\ messages = <<>>
    /\ now = 0
    /\ _database_instance = NoInstance
    /\ _db_instance = NoInstance
    /\ clients = <<>>
    /\ ret = Return("import", "", 0, None)
    /\ pc = idle
    /\ frame = noFrame

\* MongoDB.__init__ and connect: a failure of the client or of the ping is
\* raised again.
get_database(fail) ==
    /\ IF _database_instance = NoInstance
       THEN IF fail
            THEN /\ ret' = Raise("get_database")
                 /\ UNCHANGED <<_database_instance, clients>>
            ELSE /\ clients' = Append(clients, "open")
                 /\ _database_instance' = Len(clients) + 1
                 /\ ret' = Return("get_database", "", 0, Len(clients) + 1)
       ELSE /\ ret' = Return("get_database", "", 0, _database_instance)
            /\ UNCHANGED <<_database_instance, clients>>
    /\ UNCHANGED <<sessions, messages, now, _db_instance, pc, frame>>

\* MongoDB.close_connection on object self: no handler around client.close().
close_connection_of(self, fail) ==
    IF fail THEN clients' = clients ELSE clients' = [clients EXCEPT ![self] = "closed"]

close_connection(fail) ==
    /\ HasInstance
    /\ close_connection_of(_database_instance, fail)
    /\ ret' = IF fail THEN Raise("close_connection")
                      ELSE Return("close_connection", "", 0, None)
    /\ UNCHANGED <<sessions, messages, now, _database_instance, _db_instance, pc, frame>>

close_database(fail) ==
    /\ IF _db_instance # NoInstance
       THEN /\ close_connection_of(_db_instance, fail)
            /\ _db_instance' = IF fail THEN _db_instance ELSE NoInstance
            /\ ret' = IF fail THEN Raise("close_database")
                              ELSE Return("close_database", "", 0, None)
       ELSE /\ ret' = Return("close_database", "", 0, None)
            /\ UNCHANGED <<clients, _db_instance>>
    /\ UNCHANGED <<sessions, messages, now, _database_instance, pc, frame>>

\* The record create_session builds before it looks the session up.
session_data(session_id, t1, t2) ==
    [id |-> session_id, created_at |-> t1, updated_at |-> t2, status |-> "active"]

\* Mutant of create_session: the record just built is returned for a session
\* that exists already, not the stored one.
create_session_fresh(session_id, t1, t2, fail) ==
    LET existing == find_one(sessions, session_id) IN
    /\ HasInstance
    /\ now' = t2
    /\ IF fail = "find_one"
       THEN /\ ret' = Except("create_session", session_id, 0, None)
            /\ UNCHANGED sessions
       ELSE IF existing # None
       THEN /\ ret' = Return("create_session", session_id, 0, session_data(session_id, t1, t2))
            /\ UNCHANGED sessions
       ELSE IF fail = "insert_one" \/ DuplicateKey(sessions, session_data(session_id, t1, t2))
       THEN /\ ret' = Except("create_session", session_id, 0, None)
            /\ UNCHANGED sessions
       ELSE /\ sessions' = insert_one(sessions, session_data(session_id, t1, t2))
            /\ ret' = Return("create_session", session_id, 0, session_data(session_id, t1, t2))
    /\ UNCHANGED <<messages, _database_instance, _db_instance, clients, pc, frame>>

create_session(session_id, t1, t2, fail) ==
    LET existing == find_one(sessions, session_id) IN
    /\ HasInstance
    /\ now' = t2
    /\ IF fail = "find_one"
       THEN /\ ret' = Except("create_session", session_id, 0, None)
            /\ UNCHANGED sessions
       ELSE IF existing # None
       THEN /\ ret' = Return("create_session", session_id, 0, existing)
            /\ UNCHANGED sessions
       ELSE IF fail = "insert_one" \/ DuplicateKey(sessions, session_data(session_id, t1, t2))
       THEN /\ ret' = Except("create_session", session_id, 0, None)
            /\ UNCHANGED sessions
       ELSE /\ sessions' = insert_one(sessions, session_data(session_id, t1, t2))
            /\ ret' = Return("create_session", session_id, 0, session_data(session_id, t1, t2))
    /\ UNCHANGED <<messages, _database_instance, _db_instance, clients, pc, frame>>

get_session(session_id, fail) ==
    /\ HasInstance
    /\ ret' = IF fail THEN Except("get_session", session_id, 0, None)
                      ELSE Return("get_session", session_id, 0, find_one(sessions, session_id))
    /\ UNCHANGED <<sessions, messages, now, _database_instance, _db_instance, clients, pc, frame>>

message_data(session_id, role, content, t) ==
    [session_id |-> session_id, role |-> role, content |-> content, timestamp |-> t]

save_message(session_id, role, content, t1, t2, fail) ==
    /\ HasInstance
    /\ IF fail = "insert_one"
       THEN /\ now' = t1
            /\ ret' = Except("save_message", session_id, 0, FALSE)
            /\ UNCHANGED <<messages, sessions>>
       ELSE /\ messages' = insert_message(messages, message_data(session_id, role, content, t1))
            /\ now' = t2
            /\ IF fail = "update_one"
               THEN /\ ret' = Except("save_message", session_id, 0, FALSE)
                    /\ UNCHANGED sessions
               ELSE /\ sessions' = set_updated_at(sessions, session_id, t2)
                    /\ ret' = Return("save_message", session_id, 0, TRUE)
    /\ UNCHANGED <<_database_instance, _db_instance, clients, pc, frame>>

\* The {role, content} pairs get_chat_history builds from the documents.
chat_history(msgs) == [i \in 1..Len(msgs) |-> [role |-> msgs[i].role, content |-> msgs[i].content]]

get_chat_history(session_id, limit, fail) ==
    /\ HasInstance
    /\ IF fail
       THEN ret' = Except("get_chat_history", session_id, limit, EmptyList)
       ELSE \E sorted \in cursor_sort(find(messages, session_id)) :
                ret' = Return("get_chat_history", session_id, limit,
                              chat_history(cursor_limit(sorted, limit)))
    /\ UNCHANGED <<sessions, messages, now, _database_instance, _db_instance, clients, pc, frame>>

session_stats(session, msgs, session_id) ==
    [session_id |-> session_id,
     total_messages |-> count_documents(msgs, session_id),
     user_messages |-> count_role(msgs, session_id, "user"),
     assistant_messages |-> count_role(msgs, session_id, "assistant"),
     created_at |-> session.created_at,
     updated_at |-> session.updated_at]

\* get_session inside get_session_stats turns its own failure into None, so
\* a failed lookup reads as an absent session.
get_session_stats(session_id, fail) ==
    LET session == IF fail = "find_one" THEN None ELSE find_one(sessions, session_id) IN
    /\ HasInstance
    /\ ret' = IF session = None
              THEN [Return("get_session_stats", session_id, 0, EmptyMapping)
                        EXCEPT !.logged_error = (fail = "find_one")]
              ELSE IF fail = "count_documents"
              THEN Except("get_session_stats", session_id, 0, EmptyMapping)
              ELSE Return("get_session_stats", session_id, 0,
                          session_stats(session, messages, session_id))
    /\ UNCHANGED <<sessions, messages, now, _database_instance, _db_instance, clients, pc, frame>>

close_session(session_id, t, fail) ==
    /\ HasInstance
    /\ now' = t
    /\ sessions' = IF fail THEN sessions ELSE set_closed(sessions, session_id, t)
    /\ ret' = IF fail THEN Except("close_session", session_id, 0, None)
                      ELSE Return("close_session", session_id, 0, None)
    /\ UNCHANGED <<messages, _database_instance, _db_instance, clients, pc, frame>>

-----------------------------------------------------------------------------
(* Lifecycle specification: every public operation, few messages *)

Instants == now..MaxNow

GetDatabase == \E fail \in BOOLEAN : get_database(fail)
CloseDatabase == \E fail \in BOOLEAN : close_database(fail)
CloseConnection == \E fail \in BOOLEAN : close_connection(fail)
CreateSession ==
    \E s \in SessionIds, t1 \in Instants, fail \in {"none", "find_one", "insert_one"} :
        \E t2 \in t1..MaxNow : create_session(s, t1, t2, fail)
GetSession == \E s \in SessionIds, fail \in BOOLEAN : get_session(s, fail)
SaveMessage ==
    /\ Len(messages) < MaxLifecycleMessages
    /\ \E s \in SessionIds, t1 \in Instants, fail \in {"none", "insert_one", "update_one"} :
        \E t2 \in t1..MaxNow : save_message(s, "user", "hi", t1, t2, fail)
GetChatHistory == \E s \in SessionIds, fail \in BOOLEAN : get_chat_history(s, DefaultLimit, fail)
GetSessionStats ==
    \E s \in SessionIds, fail \in {"none", "find_one", "count_documents"} :
        get_session_stats(s, fail)
CloseSession == \E s \in SessionIds, t \in Instants, fail \in BOOLEAN : close_session(s, t, fail)

Next ==
    \/ GetDatabase
    \/ CloseDatabase
    \/ CloseConnection
    \/ CreateSession
    \/ GetSession
    \/ SaveMessage
    \/ GetChatHistory
    \/ GetSessionStats
    \/ CloseSession

Spec == Init /\ [][Next]_vars

-----------------------------------------------------------------------------
(* Chat specification: the message operations, one session record *)

ChatInputs == {<<"s1", "user", "hi">>, <<"s1", "assistant", "hello">>, <<"s2", "user", "hello">>}
Limits == (0..MaxLimit) \cup {DefaultLimit}

ChatGetDatabase == get_database(FALSE)
ChatCreateSession ==
    \E t1 \in Instants : \E t2 \in t1..MaxNow : create_session("s1", t1, t2, "none")
ChatSaveMessage ==
    /\ Len(messages) < MaxMessages
    /\ \E m \in ChatInputs, t1 \in Instants, fail \in {"none", "insert_one", "update_one"} :
        \E t2 \in t1..MaxNow : save_message(m[1], m[2], m[3], t1, t2, fail)
ChatGetChatHistory ==
    \E s \in SessionIds, limit \in Limits, fail \in BOOLEAN : get_chat_history(s, limit, fail)

NextChat ==
    \/ ChatGetDatabase
    \/ ChatCreateSession
    \/ ChatSaveMessage
    \/ ChatGetChatHistory

SpecChat == Init /\ [][NextChat]_vars

-----------------------------------------------------------------------------
(* Statistics specification: many messages of several roles, one session record *)

StatsInputs == {<<"s1", "user">>, <<"s1", "assistant">>, <<"s1", "system">>, <<"s2", "user">>}

StatsGetDatabase == get_database(FALSE)
StatsCreateSession ==
    \E t1 \in Instants : \E t2 \in t1..MaxNow : create_session("s1", t1, t2, "none")
StatsSaveMessage ==
    /\ Len(messages) < MaxStatsMessages
    /\ \E m \in StatsInputs, t \in Instants : save_message(m[1], m[2], "hi", t, t, "none")
StatsGetSessionStats ==
    \E s \in SessionIds, fail \in {"none", "find_one", "count_documents"} :
        get_session_stats(s, fail)

NextStats ==
    \/ StatsGetDatabase
    \/ StatsCreateSession
    \/ StatsSaveMessage
    \/ StatsGetSessionStats

SpecStats == Init /\ [][NextStats]_vars

-----------------------------------------------------------------------------
(* Concurrent specification: two callers on the shared object, their store
   calls interleaved; the handlers hold no lock. *)

\* create_session up to and including the existence check.
cs_find_one(c, session_id, t1, t2, fail) ==
    LET existing == find_one(sessions, session_id)
        data == session_data(session_id, t1, t2) IN
    /\ HasInstance
    /\ pc[c] = "idle"
    /\ now' = t2
    /\ IF fail
       THEN /\ frame' = [frame EXCEPT ![c] = Frame("create_session", session_id, data, None, "failure")]
            /\ pc' = pc
       ELSE IF existing # None
       THEN /\ frame' = [frame EXCEPT ![c] = Frame("create_session", session_id, data, existing, "")]
            /\ pc' = pc
       ELSE /\ frame' = [frame EXCEPT ![c] = Frame("create_session", session_id, data, None, "")]
            /\ pc' = [pc EXCEPT ![c] = "insert_one"]
    /\ UNCHANGED <<sessions, messages, _database_instance, _db_instance, clients, ret>>

\* Mutant of cs_insert_one: the insert replaces a record stored under the id.
cs_insert_one_upsert(c, fail) ==
    /\ pc[c] = "insert_one"
    /\ pc' = [pc EXCEPT ![c] = "idle"]
    /\ IF fail
       THEN /\ frame' = [frame EXCEPT ![c].error = "failure"]
            /\ UNCHANGED sessions
       ELSE /\ sessions' = insert_one({d \in sessions : d.id # frame[c].data.id}, frame[c].data)
            /\ frame' = [frame EXCEPT ![c].value = frame[c].data]
    /\ UNCHANGED <<messages, now, _database_instance, _db_instance, clients, ret>>

\* create_session from the insert to its return.
cs_insert_one(c, fail) ==
    /\ pc[c] = "insert_one"
    /\ pc' = [pc EXCEPT ![c] = "idle"]
    /\ IF fail
       THEN /\ frame' = [frame EXCEPT ![c].error = "failure"]
            /\ UNCHANGED sessions
       ELSE IF DuplicateKey(sessions, frame[c].data)
       THEN /\ frame' = [frame EXCEPT ![c].error = "DuplicateKeyError"]
            /\ UNCHANGED sessions
       ELSE /\ sessions' = insert_one(sessions, frame[c].data)
            /\ frame' = [frame EXCEPT ![c].value = frame[c].data]
    /\ UNCHANGED <<messages, now, _database_instance, _db_instance, clients, ret>>

\* save_message up to and including the insert of the message.
sm_insert_one(c, session_id, role, content, t, fail) ==
    /\ HasInstance
    /\ pc[c] = "idle"
    /\ now' = t
    /\ IF fail
       THEN /\ frame' = [frame EXCEPT ![c] = Frame("save_message", session_id, None, FALSE, "failure")]
            /\ UNCHANGED <<pc, messages>>
       ELSE /\ messages' = insert_message(messages, message_data(session_id, role, content, t))
            /\ frame' = [frame EXCEPT ![c] = Frame("save_message", session_id, None, FALSE, "")]
            /\ pc' = [pc EXCEPT ![c] = "update_one"]
    /\ UNCHANGED <<sessions, _database_instance, _db_instance, clients, ret>>

\* save_message from the update of the session to its return.
sm_update_one(c, t, fail) ==
    /\ pc[c] = "update_one"
    /\ pc' = [pc EXCEPT ![c] = "idle"]
    /\ now' = t
    /\ IF fail
       THEN /\ frame' = [frame EXCEPT ![c].error = "failure"]
            /\ UNCHANGED sessions
       ELSE /\ sessions' = set_updated_at(sessions, frame[c].session_id, t)
            /\ frame' = [frame EXCEPT ![c].value = TRUE]
    /\ UNCHANGED <<messages, _database_instance, _db_instance, clients, ret>>

\* close_session: one store call.
cl_update_one(c, session_id, t, fail) ==
    /\ HasInstance
    /\ pc[c] = "idle"
    /\ now' = t
    /\ sessions' = IF fail THEN sessions ELSE set_closed(sessions, session_id, t)
    /\ frame' = [frame EXCEPT ![c] =
                    Frame("close_session", session_id, None, None, IF fail THEN "failure" ELSE "")]
    /\ UNCHANGED <<pc, messages, _database_instance, _db_instance, clients, ret>>

\* Both callers work on the same session.
ConcSessionIds == {"s1"}

ConcGetDatabase == get_database(FALSE)
ConcCreateFind ==
    \E c \in Callers, s \in ConcSessionIds, t1 \in Instants, fail \in BOOLEAN :
        \E t2 \in t1..MaxNow : cs_find_one(c, s, t1, t2, fail)
ConcCreateInsert == \E c \in Callers, fail \in BOOLEAN : cs_insert_one(c, fail)
ConcSaveInsert ==
    /\ Len(messages) < MaxConcMessages
    /\ \E c \in Callers, s \in ConcSessionIds, t \in Instants, fail \in BOOLEAN :
        sm_insert_one(c, s, "user", "hi", t, fail)
ConcSaveUpdate == \E c \in Callers, t \in Instants, fail \in BOOLEAN : sm_update_one(c, t, fail)
ConcCloseSession ==
    \E c \in Callers, s \in ConcSessionIds, t \in Instants, fail \in BOOLEAN :
        cl_update_one(c, s, t, fail)

NextConc ==
    \/ ConcGetDatabase
    \/ ConcCreateFind
    \/ ConcCreateInsert
    \/ ConcSaveInsert
    \/ ConcSaveUpdate
    \/ ConcCloseSession

SpecConc == Init /\ [][NextConc]_vars

-----------------------------------------------------------------------------
(* The claims *)

\* The collection holds at most one record per session id.
OneRecordPerId == \A d1, d2 \in sessions : d1.id = d2.id => d1 = d2

\* A step that is a create_session call returning a record, right after a
\* create_session call for the same id that returned a record.
CreateTwice ==
    /\ ret.op = "create_session"
    /\ ret.value # None
    /\ ret'.op = "create_session"
    /\ ret'.session_id = ret.session_id
    /\ ret'.value # None

\* C1 as stated: create_session(id) twice in a row returns records with the
\* same id, the same created_at and the stored status, the second call
\* leaves the sessions collection unchanged, and the collection never holds
\* two records for one id.
C1_SameCreatedAtTwice ==
    /\ []OneRecordPerId
    /\ [][CreateTwice =>
            /\ ret'.value.id = ret.value.id
            /\ ret'.value.created_at = ret.value.created_at
            /\ ret'.value.status = find_one(sessions', ret'.session_id).status
            /\ sessions' = sessions]_vars

\* C1 amended: create_session(id) twice in a row, neither call failing,
\* returns records with the same id and the stored status; the second call
\* returns the stored record, whose created_at is the first call's cut to
\* the millisecond; the second call leaves the sessions collection
\* unchanged; after a call that returned a record the collection holds a
\* record for the id, and it never holds two records for one id.
C1_SameIdentityTwice ==
    /\ []OneRecordPerId
    /\ [](ret.op = "create_session" /\ ret.value # None
            => /\ ret.value.id = ret.session_id
               /\ find_one(sessions, ret.session_id) # None)
    /\ [][CreateTwice =>
            /\ ret'.value.id = ret.value.id
            /\ ret'.value.created_at = BsonDatetime(ret.value.created_at)
            /\ ret'.value = find_one(sessions', ret'.session_id)
            /\ ret'.value.status = ret.value.status
            /\ sessions' = sessions]_vars

\* C1 witness: create_session has returned the stored record of a session
\* created before by create_session (nothing else was written since), while
\* the clock had moved on to a later millisecond.
C1_Witness ==
    /\ ret.op = "create_session"
    /\ ret.value # None
    /\ ret.value = find_one(sessions, ret.session_id)
    /\ ret.value.status = "active"
    /\ messages = <<>>
    /\ ret.value.updated_at # BsonDatetime(now)

\* C6 as stated: once the store is constructed no public operation raises;
\* a failing store call gives the operation's sentinel; only a failed
\* construction raises.
C6_OnlyConstructionRaises ==
    /\ ret.raised => ret.op = "get_database"
    /\ ret.logged_error /\ ret.op \in {"create_session", "get_session"} => ret.value = None
    /\ ret.logged_error /\ ret.op = "save_message" => ret.value = FALSE
    /\ ret.logged_error /\ ret.op = "get_chat_history" => ret.value = EmptyList
    /\ ret.logged_error /\ ret.op = "get_session_stats" => ret.value = EmptyMapping

\* C7 as stated: whenever save_message has inserted the message record it
\* returns True, whatever the update of the session does; it returns False
\* only when the call added no message record.
C7_FlagFollowsInsert ==
    [][ret'.op = "save_message" =>
         /\ Len(messages') = Len(messages) + 1 => ret'.value = TRUE
         /\ ret'.value = FALSE => messages' = messages]_vars

\* C8 as stated: get_database builds a store only when none is held and
\* otherwise returns the held one; close_database, called while a shared
\* instance is held, closes its connection and clears it.
C8_SharedInstanceLifecycle ==
    [][/\ ret'.op = "get_database" /\ ~ret'.raised =>
            IF _database_instance = NoInstance
            THEN /\ Len(clients') = Len(clients) + 1
                 /\ _database_instance' = Len(clients')
                 /\ ret'.value = _database_instance'
            ELSE /\ clients' = clients
                 /\ _database_instance' = _database_instance
                 /\ ret'.value = _database_instance
       /\ ret'.op = "close_database" /\ _database_instance # NoInstance =>
            /\ _database_instance' = NoInstance
            /\ clients'[_database_instance] = "closed"]_vars

\* A step that is a close_session call whose store update did not fail.
CloseStep == ret'.op = "close_session" /\ ~ret'.logged_error /\ ~ret'.raised

\* What close_session leaves alone: the messages, the other sessions, and
\* for an unknown id the whole sessions collection.
CloseFrame ==
    LET id == ret'.session_id
        before == find_one(sessions, id) IN
    /\ messages' = messages
    /\ {d \in sessions' : d.id # id} = {d \in sessions : d.id # id}
    /\ before = None => sessions' = sessions
    /\ before # None =>
         /\ find_one(sessions', id) # None
         /\ find_one(sessions', id).created_at = before.created_at
         /\ find_one(sessions', id).status = "closed"

\* C5 as stated: close_session on an existing active session sets status
\* to closed and moves updated_at forward, created_at and the messages
\* unchanged; on an unknown id it changes neither collection and does not
\* raise.
C5_CloseAdvancesUpdatedAt ==
    [][CloseStep =>
         /\ CloseFrame
         /\ LET before == find_one(sessions, ret'.session_id) IN
            before # None /\ before.status = "active" =>
                find_one(sessions', ret'.session_id).updated_at > before.updated_at]_vars

\* C5 amended: close_session on an existing session sets status to closed
\* and sets updated_at to the time read during the call, cut to the
\* millisecond as the store keeps it (which is the previous value again
\* when both fall in one millisecond), created_at and the messages
\* unchanged; on an unknown id it changes neither collection and does not
\* raise.
C5_CloseSetsUpdatedAt ==
    /\ [](ret.op = "close_session" => ~ret.raised)
    /\ [][CloseStep =>
            /\ CloseFrame
            /\ LET before == find_one(sessions, ret'.session_id) IN
               before # None =>
                  /\ find_one(sessions', ret'.session_id).updated_at = BsonDatetime(now')
                  /\ find_one(sessions', ret'.session_id).updated_at >= before.updated_at]_vars

\* C5 witness: close_session has closed a session that holds a message, in
\* a later millisecond than the one it was created in.
C5_Witness ==
    /\ ret.op = "close_session"
    /\ ~ret.logged_error
    /\ find_one(sessions, ret.session_id) # None
    /\ find_one(sessions, ret.session_id).status = "closed"
    /\ find_one(sessions, ret.session_id).updated_at > find_one(sessions, ret.session_id).created_at
    /\ count_documents(messages, ret.session_id) > 0

\* A get_chat_history call that did not fail.
HistoryReturned == ret.op = "get_chat_history" /\ ~ret.logged_error /\ ~ret.raised

\* C2 as stated: get_chat_history(s) returns only the messages saved for s,
\* in the order they were saved (which is non-decreasing timestamp order),
\* each cut to exactly role and content.
C2_HistoryInSavedOrder ==
    HistoryReturned /\ ret.limit = DefaultLimit =>
        /\ ret.value = chat_history(find(messages, ret.session_id))
        /\ \A i \in 1..Len(ret.value) : DOMAIN ret.value[i] = {"role", "content"}

\* The entries returned are role and content of k different messages of the
\* session, in non-decreasing timestamp order, none of them later than a
\* message of the session left out.
OldestOf(value, found) ==
    \E pick \in [1..Len(value) -> 1..Len(found)] :
        /\ \A i, j \in 1..Len(value) : i # j => pick[i] # pick[j]
        /\ \A i \in 1..Len(value) :
              /\ value[i].role = found[pick[i]].role
              /\ value[i].content = found[pick[i]].content
        /\ \A i, j \in 1..Len(value) :
              i < j => found[pick[i]].timestamp <= found[pick[j]].timestamp
        /\ \A i \in 1..Len(value), j \in 1..Len(found) :
              (\A h \in 1..Len(value) : pick[h] # j)
                  => found[pick[i]].timestamp <= found[j].timestamp

\* The part of C2 the code keeps: the history holds exactly the session's
\* messages, cut to role and content, in non-decreasing timestamp order.
HistorySortedByTimestamp ==
    HistoryReturned /\ ret.limit = DefaultLimit =>
        /\ Len(ret.value) = Len(find(messages, ret.session_id))
        /\ OldestOf(ret.value, find(messages, ret.session_id))
        /\ \A i \in 1..Len(ret.value) : DOMAIN ret.value[i] = {"role", "content"}

\* C3 as stated: for every limit k, get_chat_history returns at most k
\* entries, and they are the k oldest messages of the session.
C3_AtMostLimitAnyLimit ==
    HistoryReturned =>
        /\ Len(ret.value) <= ret.limit
        /\ OldestOf(ret.value, find(messages, ret.session_id))

\* C3 amended: for every limit k >= 1, get_chat_history returns at most k
\* entries, all of the session's messages when it holds no more than k, and
\* otherwise the k oldest by timestamp (with limit 0 the store applies no
\* limit, and a negative limit counts as its absolute value).
C3_AtMostPositiveLimit ==
    HistoryReturned /\ ret.limit >= 1 =>
        /\ Len(ret.value) <= ret.limit
        /\ Len(ret.value) = Min(ret.limit, Cardinality({i \in 1..Len(messages) :
                                     messages[i].session_id = ret.session_id}))
        /\ OldestOf(ret.value, find(messages, ret.session_id))

\* C3 witness: a history cut to k >= 1 entries for a session that holds
\* more than k messages, the newest of them stored later than the rest.
C3_Witness ==
    /\ HistoryReturned
    /\ ret.limit >= 1
    /\ Len(ret.value) = ret.limit
    /\ count_documents(messages, ret.session_id) > ret.limit
    /\ \E i, j \in 1..Len(messages) :
          /\ messages[i].session_id = ret.session_id
          /\ messages[j].session_id = ret.session_id
          /\ messages[i].timestamp < messages[j].timestamp

\* The stored messages of a session, and those of one role, counted.
Stored(session_id) == {i \in 1..Len(messages) : messages[i].session_id = session_id}
StoredOfRole(session_id, role) == {i \in Stored(session_id) : messages[i].role = role}

\* C4: get_session_stats(s), no store call of it failing and no write in
\* between, reports for an existing session the number of stored messages
\* of s, of those with role user and of those with role assistant, with the
\* session's stored created_at and updated_at; with no session record for s
\* it returns the empty mapping, whatever messages are stored for s.
C4_StatsCountMessages ==
    ret.op = "get_session_stats" /\ ~ret.logged_error /\ ~ret.raised =>
        IF \E d \in sessions : d.id = ret.session_id
        THEN /\ ret.value # EmptyMapping
             /\ ret.value.total_messages = Cardinality(Stored(ret.session_id))
             /\ ret.value.user_messages = Cardinality(StoredOfRole(ret.session_id, "user"))
             /\ ret.value.assistant_messages = Cardinality(StoredOfRole(ret.session_id, "assistant"))
             /\ \E d \in sessions :
                   /\ d.id = ret.session_id
                   /\ ret.value.created_at = d.created_at
                   /\ ret.value.updated_at = d.updated_at
        ELSE ret.value = EmptyMapping

\* C4 witness: the statistics of a session with 3 user and 2 assistant
\* messages, while another session's message is stored too or the session
\* was updated after its creation.
C4_Witness ==
    /\ ret.op = "get_session_stats"
    /\ ~ret.logged_error
    /\ ret.value # EmptyMapping
    /\ ret.value.total_messages = 5
    /\ ret.value.user_messages = 3
    /\ ret.value.assistant_messages = 2
    /\ ret.value.updated_at > ret.value.created_at

\* C9: a session record is never removed, its status is active or closed,
\* and once it is closed no step makes it active again or changes its
\* created_at, whatever the callers do and however their store calls
\* interleave.
C9_SessionLifecycle ==
    /\ [](\A d \in sessions : d.status \in {"active", "closed"})
    /\ [][\A d \in sessions :
            /\ \E e \in sessions' : e.id = d.id
            /\ \A e \in sessions' : e.id = d.id =>
                  /\ e.created_at = d.created_at
                  /\ d.status = "closed" => e.status = "closed"]_vars

\* C9 witness: on a closed session, one caller's create_session has
\* returned the closed record and the other's save_message has succeeded.
C9_Witness ==
    \E c1, c2 \in Callers :
        /\ pc[c1] = "idle" /\ pc[c2] = "idle"
        /\ frame[c1].op = "create_session"
        /\ frame[c1].value # None
        /\ frame[c1].value.status = "closed"
        /\ frame[c2].op = "save_message"
        /\ frame[c2].value = TRUE
        /\ frame[c2].session_id = frame[c1].session_id
        /\ \E d \in sessions : d.id = frame[c1].session_id /\ d.status = "closed"

\* C10 as stated: when callers run create_session for one new id
\* concurrently and no store call fails for another reason than the
\* uniqueness of the id, one record is stored and every caller gets a
\* record with that id, never None.
C10_ConcurrentCreateReturnsRecord ==
    \A c \in Callers :
        pc[c] = "idle" /\ frame[c].op = "create_session" /\ frame[c].error # "failure" =>
            /\ Cardinality({d \in sessions : d.id = frame[c].session_id}) = 1
            /\ frame[c].value # None
            /\ frame[c].value.id = frame[c].session_id

====
